---- MODULE Spec2Model ----
(***************************************************************************)
(* faster.db: a file-backed record store (class Database, src/src/index.ts) *)
(* One handle over one file.  Every public operation is an async function: *)
(* it runs in segments separated by its awaits (loadData, readFile,        *)
(* writeFile), and the segments of two operations may interleave.          *)
(***************************************************************************)
EXTENDS Integers, Sequences, FiniteSets, TLC

\* ------------------------------------------------------------------ bounds
\* Most records the store holds before insert is no longer called.
MaxLen == 2
\* Most operations called on one handle when calls overlap.
MaxCalls == 2
MaxTime == 2
MaxTimers == 1
\* The frames the engine's call stack holds before it raises RangeError.
MaxStack == 3

\* ------------------------------------------------------------------ values
Fields == {"Name", "ID"}

\* A JavaScript function value (String, Number in the class's own example).
Fn == "fn"
\* What reading a missing key, or a key holding undefined, gives.
Undefined == "undefined"

\* The default templates of the documentation: { Name: String, ID: Number }
\* and { Name: '', ID: 0 }.
ReadmeTemplate == [Name |-> "", ID |-> "0"]
Templates == { [Name |-> Fn, ID |-> Fn], ReadmeTemplate }

\* Values a caller supplies per field.
InputVals == [Name |-> {"John"}, ID |-> {"1"}]

\* The sets of keys a caller supplies.
KeySets == { {}, {"Name"}, {"Name", "ID"} }

\* Partial<T>: the keys a caller supplies, each with its value.
Partials ==
    UNION { {q \in [S -> {"John", "1"}] : \A f \in S : q[f] \in InputVals[f]} :
            S \in KeySets }

EmptyPartial == [f \in {} |-> Undefined]

\* An argument: absent (undefined) or a partial record.
Absent == [given |-> FALSE, q |-> EmptyPartial]
Given(q) == [given |-> TRUE, q |-> q]
Args == {Absent} \cup {Given(q) : q \in Partials}

\* Object.keys(query).length
KeyCount(q) == Cardinality(DOMAIN q)

\* findDistinct's argument: a field name, or absent.
NoField == [given |-> FALSE, field |-> "none"]
FieldArg(f) == [given |-> TRUE, field |-> f]
FieldArgs == {NoField} \cup {FieldArg(f) : f \in Fields}

\* paginateData's arguments: page and pageSize, or one of them missing.
MissingPage == [given |-> FALSE, page |-> 0, pageSize |-> 0]
PageArg(page, pageSize) == [given |-> TRUE, page |-> page, pageSize |-> pageSize]
PageArgs ==
    {MissingPage, PageArg(0, 1), PageArg(-1, 1), PageArg(1, 0), PageArg(1, -1)}
    \cup {PageArg(page, pageSize) : page \in {1, 2}, pageSize \in {1, 2}}

\* ------------------------------------------------------------- JSON codec
\* A faulty encoder: it also leaves out every key whose value is falsy.
StringifyEntryTruthy(r) ==
    [f \in {g \in DOMAIN r : r[g] \notin {Undefined, Fn, "", "0"}} |-> r[f]]

\* JSON.stringify of one record: a key whose value is undefined or a function
\* is left out.
StringifyEntry(r) ==
    [f \in {g \in DOMAIN r : r[g] # Undefined /\ r[g] # Fn} |-> r[f]]

\* JSON.stringify(this.data, null, 2): the text, as the objects it spells.
Stringify(recs) == [i \in 1..Len(recs) |-> StringifyEntry(recs[i])]

\* A parsed object read field by field: a key it lacks reads undefined.
ParseEntry(o) ==
    [f \in Fields |-> IF f \in DOMAIN o THEN o[f] ELSE Undefined]

\* JSON.parse(fileContent)
Parse(objs) == [i \in 1..Len(objs) |-> ParseEntry(objs[i])]

\* ------------------------------------------------------------------- files
NoFile == [kind |-> "absent", recs |-> <<>>]
Malformed == [kind |-> "malformed", recs |-> <<>>]
JsonFile(objs) == [kind |-> "json", recs |-> objs]

\* A file whose read fails with a code other than ENOENT.
Unreadable == [kind |-> "eio", recs |-> <<>>]

\* The file a handle is opened on: none, one that does not parse, one that
\* cannot be read, one holding no record, one holding a record.
InitFiles ==
    {NoFile, Malformed, Unreadable, JsonFile(<<>>),
     JsonFile(<<[Name |-> "John", ID |-> "1"]>>)}

\* The environment: file writes fail, or do not.
Faults == {"none", "write"}

\* ------------------------------------------------------------------- paths
Suffix == ".fastdb"
BackupSuffix == ".fastdb-backup"
ReadmePath == <<"user-database">>
SuppliedPaths ==
    { ReadmePath, <<"user-database", Suffix>>, <<>>, <<Suffix, "x">>,
      <<"user-database", Suffix, Suffix>> }

\* A faulty constructor: the suffix is appended whatever the path ends with.
ResolvePathAlways(p) == Append(p, Suffix)

\* _path.endsWith('.fastdb')
EndsWithSuffix(p) == Len(p) > 0 /\ p[Len(p)] = Suffix

\* constructor: the suffix is appended when the path lacks it
ResolvePath(p) == IF EndsWithSuffix(p) THEN p ELSE Append(p, Suffix)

\* The backup paths handed to createBackup: none (or the empty string), a
\* bare name, a name with the backup suffix, the store's own file name.
BackupPaths ==
    { <<>>, <<"backup">>, <<"backup", BackupSuffix>>, <<"user-database", Suffix>> }

\* A faulty resolution: the backup suffix is appended whatever the path ends
\* with.
ResolveBackupPathAlways(p) == Append(p, BackupSuffix)

\* if (!backupPath.endsWith('.fastdb-backup')) backupPath += '.fastdb-backup'
ResolveBackupPath(p) ==
    IF Len(p) > 0 /\ p[Len(p)] = BackupSuffix THEN p ELSE Append(p, BackupSuffix)

\* ---------------------------------------------------------------- results
RUndefined == [kind |-> "undefined", val |-> 0]
RNull == [kind |-> "null", val |-> 0]
RRaise == [kind |-> "raise", val |-> 0]
RBool(b) == [kind |-> "bool", val |-> b]
RNum(n) == [kind |-> "num", val |-> n]
RRec(r) == [kind |-> "rec", val |-> r]
RSeq(s) == [kind |-> "seq", val |-> s]

NoRec == [f \in Fields |-> Undefined]

\* ------------------------------------------------------------- operations
PartialOps == {"insert", "get", "delete", "dataExists", "countEntries", "filterData"}
PlainOps == {"getAll", "deleteAll"}
Ops == PartialOps \cup PlainOps \cup {"findDistinct", "paginateData"}

\* The arguments each operation is called with.
ArgsOf(op) ==
    CASE op \in PartialOps -> Args
      [] op = "findDistinct" -> FieldArgs
      [] op = "paginateData" -> PageArgs
      [] OTHER -> {Absent}

\* A wholly faulty catch block: every operation returns undefined.
SentinelUndefined(op) == RUndefined

\* What each operation's catch block returns.
Sentinel(op) ==
    CASE op \in {"insert", "get", "countEntries", "filterData", "paginateData"} ->
            RUndefined
      [] op \in {"getAll", "findDistinct"} -> RNull
      [] op \in {"deleteAll", "dataExists"} -> RBool(FALSE)
      [] op = "delete" -> RNum(0)

\* ---------------------------------------------------------------- matching
\* query[key] !== entry[key]
StrictNotEqual(a, b) == a # b

\* get: the callback handed to find (lines 237-244)
GetMatches(entry, query) ==
    \A key \in DOMAIN query : ~StrictNotEqual(query[key], entry[key])

\* delete: the callback handed to filter; true keeps the entry (lines 270-277)
DeleteKeeps(entry, query) ==
    \E key \in DOMAIN query : StrictNotEqual(query[key], entry[key])

\* A faulty callback: one equal key is enough.
ExistsMatchesAnyKey(entry, query) ==
    \E key \in DOMAIN query : ~StrictNotEqual(query[key], entry[key])

\* dataExists: the callback handed to some (lines 314-321)
ExistsMatches(entry, query) ==
    \A key \in DOMAIN query : ~StrictNotEqual(query[key], entry[key])

\* A faulty callback: one equal key is enough.
CountMatchesAnyKey(entry, query) ==
    \E key \in DOMAIN query : ~StrictNotEqual(query[key], entry[key])

\* countEntries: the callback handed to filter (lines 344-351)
CountMatches(entry, query) ==
    \A key \in DOMAIN query : ~StrictNotEqual(query[key], entry[key])

\* The predicate a caller hands to filterData: every field of q equals the
\* record's.
FilterFn(entry, q) == \A f \in DOMAIN q : entry[f] = q[f]

\* A faulty search: the last element the callback accepts (findLast).
FindLast(recs, query) ==
    LET hits == {i \in 1..Len(recs) : GetMatches(recs[i], query)}
    IN  IF hits = {} THEN RUndefined
        ELSE RRec(recs[CHOOSE i \in hits : \A j \in hits : i >= j])

\* Array.prototype.find: the first element the callback accepts, or undefined
Find(recs, query) ==
    LET hits == {i \in 1..Len(recs) : GetMatches(recs[i], query)}
    IN  IF hits = {} THEN RUndefined
        ELSE RRec(recs[CHOOSE i \in hits : \A j \in hits : i <= j])

\* this.data.filter(keep)
DeleteFilter(recs, query) ==
    LET Keep(e) == DeleteKeeps(e, query) IN SelectSeq(recs, Keep)

\* this.data.some(match)
Some(recs, query) == \E i \in 1..Len(recs) : ExistsMatches(recs[i], query)

\* this.data.filter(match).length
CountFilter(recs, query) ==
    LET Hit(e) == CountMatches(e, query) IN Len(SelectSeq(recs, Hit))

\* this.data.filter(filterFn)
FilterData(recs, q) ==
    LET Hit(e) == FilterFn(e, q) IN SelectSeq(recs, Hit)

\* A faulty spread, {...data, ...this._defaultData}: the template wins.
SpreadDefaultsWin(defaults, partial) ==
    [f \in Fields |-> IF f \in DOMAIN defaults THEN defaults[f] ELSE partial[f]]

\* {...this._defaultData, ...data}
Spread(defaults, partial) ==
    [f \in Fields |-> IF f \in DOMAIN partial THEN partial[f] ELSE defaults[f]]

\* !query || Object.keys(query).length === 0
EmptyQuery(arg) == ~arg.given \/ KeyCount(arg.q) = 0

\* data.map(entry => entry[field])
Values(recs, field) ==
    [i \in 1..Len(recs) |->
        IF field \in DOMAIN recs[i] THEN recs[i][field] ELSE Undefined]

\* new Set(values), in insertion order: a value already present is not added
RECURSIVE NewSet(_, _)
NewSet(acc, values) ==
    IF values = <<>> THEN acc
    ELSE LET v == Head(values)
             has == \E i \in 1..Len(acc) : acc[i] = v
         IN  NewSet(IF has THEN acc ELSE Append(acc, v), Tail(values))

\* A faulty findDistinct: the mapped values as they are.
DistinctAll(recs, field) == Values(recs, field)

\* Array.from(new Set(values))
Distinct(recs, field) == NewSet(<<>>, Values(recs, field))

\* An index of Array.prototype.slice: negative counts from the end, and it is
\* clipped to the array.
SliceIndex(k, n) ==
    IF k < 0 THEN (IF n + k < 0 THEN 0 ELSE n + k) ELSE (IF k > n THEN n ELSE k)

\* this.data.slice(start, end)
Slice(recs, start, end) ==
    LET lo == SliceIndex(start, Len(recs))
        hi == SliceIndex(end, Len(recs))
    IN  [i \in 1..(hi - lo) |-> recs[lo + i]]

\* A faulty validation: nothing is refused before the try block.
RaisesNever(op, arg) == FALSE

\* The argument checks made before the try block: they throw to the caller.
Raises(op, arg) ==
    \/ op = "countEntries" /\ EmptyQuery(arg)
    \/ op = "filterData" /\ ~arg.given
    \/ op = "findDistinct" /\ ~arg.given
    \/ op = "paginateData" /\ (~arg.given \/ arg.page < 1 \/ arg.pageSize < 1)

\* ------------------------------------------------------------------- state
VARIABLES
    data,           \* #data: the in-memory sequence
    dataLoaded,     \* public flag
    errorOccurred,  \* public flag
    defaultData,    \* _defaultData
    path,           \* _path, resolved by the constructor
    file,           \* the file at _path
    fault,          \* what the file system refuses just now
    connected,      \* 'connected' events emitted by this handle so far
    procs,          \* the operations in flight: each one's position and locals
    access,         \* which access to the handle the latest call is
    calls,          \* overlapping calls made so far (counted to MaxCalls)
    prev,           \* the operation that returned just before the current call
    log,            \* the records a reload is expected to give
    scen,           \* progress along the README scenario, -1 when off it
    supplied,       \* the path handed to the constructor
    listener,       \* what the registered 'error' listener does, if any
    dataListener,   \* what the 'newData' and 'dataDeleted' listeners do
    backup,         \* the createBackup call in progress, if any
    accessor,       \* the property read in progress, if any
    now,            \* the clock read by new Date()
    timers,         \* the timers made by scheduleTask, in order of creation
    sched           \* the scheduleTask call made by the latest step, if any

\* The state of the store handle and its file.
storeVars == <<data, dataLoaded, errorOccurred, defaultData, path, file, fault,
               connected, procs, access, calls, prev, log, scen>>

\* The state of the host's clock and timers.
taskVars == <<now, timers, sched>>

vars == <<storeVars, supplied, listener, dataListener, backup, accessor, taskVars>>

Procs == {1, 2}

IdleProc ==
    [pc |-> "idle", op |-> "none", arg |-> Absent, rd |-> NoFile, wr |-> <<>>,
     ok |-> TRUE, newEntry |-> NoRec, originalLength |-> 0, deletedCount |-> 0,
     result |-> RUndefined, ev |-> <<>>, pre |-> <<>>, solo |-> TRUE,
     inner |-> FALSE, found |-> NoFile, failed |-> FALSE, io |-> {}]

HasEvent(evs, name) == \E i \in 1..Len(evs) : evs[i].name = name

ErrorEvent == [name |-> "error"]
ConnectedEvent(p) == [name |-> "connected", Path |-> p]
NewDataEvent(r) == [name |-> "newData", rec |-> r]
\* A faulty payload: the two lengths change places.
DataDeletedEventSwapped(o, a) ==
    [name |-> "dataDeleted", OriginalLength |-> a, ActualLength |-> o,
     Completed |-> TRUE]

DataDeletedEvent(o, a) ==
    [name |-> "dataDeleted", OriginalLength |-> o, ActualLength |-> a,
     Completed |-> TRUE]

InFlight(pr) == pr.pc \notin {"idle", "done"}
Quiet == \A p \in Procs : procs[p].pc = "idle"
OthersQuiet(p) == \A o \in Procs \ {p} : procs[o].pc = "idle"

\* ------------------------------------------------------------------ ghosts
NoPrev ==
    [op |-> "none", arg |-> Absent, result |-> RUndefined, first |-> FALSE,
     err |-> FALSE]

\* The pairs of operations the properties relate when called back to back
\* with the same query.
RelatedPairs ==
    { <<"dataExists", "countEntries">>, <<"countEntries", "dataExists">>,
      <<"countEntries", "filterData">>, <<"filterData", "countEntries">>,
      <<"get", "countEntries">>, <<"countEntries", "get">>,
      <<"countEntries", "delete">>, <<"delete", "dataExists">> }

Failed(pr) == HasEvent(pr.ev, "error") \/ pr.result.kind = "raise"

\* What the caller keeps of the operation that has just returned: that it
\* was the handle's first, and, when it may begin a related pair, its query
\* and result.
PrevAtSettle(p) ==
    LET last == procs[p]
        pair == /\ \E op \in Ops : <<last.op, op>> \in RelatedPairs
                /\ ~EmptyQuery(last.arg)
        first == access = "first"
    IN  IF last.solo /\ (pair \/ first)
        THEN [op |-> IF pair THEN last.op ELSE "none",
              arg |-> IF pair THEN last.arg ELSE Absent,
              result |-> IF pair THEN last.result ELSE RUndefined,
              first |-> first, err |-> Failed(last)]
        ELSE NoPrev

\* The next call keeps it when it is the pair's second, with the same query.
PrevAtCall(p, op, arg) ==
    IF ~OthersQuiet(p) THEN NoPrev
    ELSE IF <<prev.op, op>> \in RelatedPairs /\ prev.arg = arg THEN prev
    ELSE [NoPrev EXCEPT !.first = prev.first, !.err = prev.first /\ prev.err]

Unknown == [known |-> FALSE, recs |-> <<>>]
Known(recs) == [known |-> TRUE, recs |-> recs]

\* What a handle over this file is expected to load.
FileLog(f) ==
    CASE f.kind = "json" -> Known(Parse(f.recs))
      [] f.kind = "absent" -> Known(<<>>)
      [] OTHER -> Unknown

LogAtCall(p, op) ==
    CASE ~OthersQuiet(p) -> Unknown
      [] access = "none" /\ op = "getAll" -> log
      [] access = "none" /\ op = "insert" -> FileLog(file)
      [] access # "none" /\ op = "insert" -> log
      [] OTHER -> Unknown

LogAtReturn(pr, res) ==
    CASE ~pr.solo -> Unknown
      [] pr.op = "getAll" -> log
      [] pr.op = "insert" /\ res.kind = "rec" /\ log.known ->
            Known(Append(log.recs, res.val))
      [] OTHER -> Unknown

\* Only a run of successful inserts extends what a reload is expected to give.
LogAtSettle(pr) == IF pr.op = "insert" THEN log ELSE Unknown

JohnRec == [Name |-> "John", ID |-> "1"]
JohnQuery == [Name |-> "John"]

\* README usage: insert, get, delete, getAll on a path with no file.
ScenarioStep(k) ==
    CASE k = 1 -> <<"insert", Given(JohnRec)>>
      [] k = 2 -> <<"get", Given(JohnQuery)>>
      [] k = 3 -> <<"delete", Given(JohnQuery)>>
      [] k = 4 -> <<"getAll", Absent>>
      [] OTHER -> <<"none", Absent>>

ScenAtCall(p, op, arg) ==
    IF scen >= 0 /\ OthersQuiet(p) /\ fault = "none"
       /\ ScenarioStep(scen + 1) = <<op, arg>>
    THEN scen + 1 ELSE -1

\* What the store holds as the caller sees it: the in-memory sequence once it
\* holds anything or is loaded, else what is on file.
StoreContent ==
    IF dataLoaded \/ data # <<>> THEN data
    ELSE IF file.kind = "json" THEN Parse(file.recs) ELSE <<>>

\* A faulty guard: loadData reads whether or not the data is loaded.
NotLoadedAlways == TRUE

\* !this.dataLoaded
NotLoaded == ~dataLoaded

\* What the 'error' listener does: returns, throws, or none is registered.
Listeners == {"ok", "throws", "none"}

\* What the listeners of 'newData' and 'dataDeleted' do: return, or throw.
DataListeners == {"returns", "throws"}

\* createBackup has written no file.
NoWrite == [path |-> <<>>, recs |-> <<>>]

\* No createBackup call is in progress.
NoBackup ==
    [pc |-> "idle", db |-> FALSE, backupPath |-> <<>>, text |-> <<>>,
     result |-> RUndefined, written |-> NoWrite, given |-> <<>>,
     failed |-> FALSE, before |-> <<>>]

\* The public accessors of a handle.
Accessors == {"data", "path", "defaultData"}

\* The value an accessor returned.
RValue(v) == [kind |-> "value", val |-> v]

\* No property of the handle is being read.
NoAccess == [pc |-> "idle", name |-> "none", depth |-> 0, result |-> RUndefined]

\* What a scheduled task does once started: its promise resolves or rejects.
Tasks == {"resolves", "rejects"}

\* The instants of the clock.
Times == 0..MaxTime

\* No scheduleTask call was made by the latest step.
NoSched == [called |-> FALSE, date |-> 0, at |-> 0, raised |-> FALSE]

\* -------------------------------------------------------------------- init
Init ==
    /\ data = <<>>
    /\ dataLoaded = FALSE
    /\ errorOccurred = FALSE
    /\ defaultData \in Templates
    /\ supplied = ReadmePath
    /\ path = ResolvePath(supplied)
    /\ file \in InitFiles
    /\ fault \in Faults
    /\ connected = 0
    /\ procs = [p \in Procs |-> IdleProc]
    /\ access = "none"
    /\ calls = 0
    /\ prev = NoPrev
    /\ log = FileLog(file)
    /\ scen = IF file = NoFile /\ fault = "none" THEN 0 ELSE -1
    /\ listener = "ok"
    /\ dataListener = "returns"
    /\ backup = NoBackup
    /\ accessor = NoAccess
    /\ now = 0
    /\ timers = <<>>
    /\ sched = NoSched

\* ----------------------------------------------------------------- returns
DoneProc(pr, res, evs) ==
    [IdleProc EXCEPT !.pc = "done", !.op = pr.op, !.arg = pr.arg,
                     !.pre = pr.pre, !.solo = pr.solo, !.found = pr.found,
                     !.failed = pr.failed, !.io = pr.io, !.result = res,
                     !.ev = evs]

\* return res
Return(p, res, evs) ==
    /\ procs' = [procs EXCEPT ![p] = DoneProc(procs[p], res, evs)]
    /\ log' = LogAtReturn(procs[p], res)

\* A faulty catch block: it flips the flag instead of setting it.
CatchToggle(p) ==
    /\ Return(p, Sentinel(procs[p].op), Append(procs[p].ev, ErrorEvent))
    /\ errorOccurred' = ~errorOccurred

\* catch (error): this.emit('error', error); this.errorOccurred = true;
\* return the operation's sentinel
\* emit throws when the listener throws or none is registered: the throw
\* leaves the catch block before the flag is set, and the operation rejects
Catch(p) ==
    IF listener = "ok"
    THEN /\ Return(p, Sentinel(procs[p].op), Append(procs[p].ev, ErrorEvent))
         /\ errorOccurred' = TRUE
    ELSE /\ Return(p, RRaise, Append(procs[p].ev, ErrorEvent))
         /\ UNCHANGED errorOccurred

\* insert and get without an argument: emit 'error' inside the try block
\* and return undefined, leaving errorOccurred as it is; when emit throws,
\* the catch block emits again, emit throws again and the operation rejects
AbsentArgument(p) ==
    IF listener = "ok"
    THEN Return(p, RUndefined, Append(procs[p].ev, ErrorEvent))
    ELSE Return(p, RRaise, procs[p].ev \o <<ErrorEvent, ErrorEvent>>)

\* this.emit(name, payload); return res, as the last statements of a try
\* block: a listener that throws has been handed the event, and its throw
\* takes the operation to its catch block
EmitThenReturn(p, res, event) ==
    LET evs == Append(procs[p].ev, event) IN
    IF dataListener = "returns"
    THEN /\ Return(p, res, evs)
         /\ UNCHANGED errorOccurred
    ELSE IF listener = "ok"
    THEN /\ Return(p, Sentinel(procs[p].op), Append(evs, ErrorEvent))
         /\ errorOccurred' = TRUE
    ELSE /\ Return(p, RRaise, Append(evs, ErrorEvent))
         /\ UNCHANGED errorOccurred

\* ------------------------------------------------------------------- calls
\* The caller invokes an operation: the segment up to its first await.
\* countEntries, findDistinct, filterData and paginateData check their
\* arguments before the try block;
\* every operation then awaits loadData, which issues readFile unless
\* dataLoaded is set.
Call(p, op, arg) ==
    /\ procs[p].pc = "idle"
    /\ op \in Ops
    /\ arg \in ArgsOf(op)
    /\ op = "insert" => Len(StoreContent) < MaxLen
    /\ LET start == [IdleProc EXCEPT !.op = op, !.arg = arg, !.pre = StoreContent,
                                     !.solo = OthersQuiet(p), !.found = file]
           called == IF Raises(op, arg)
                     THEN [start EXCEPT !.pc = "done", !.result = RRaise]
                     ELSE IF NotLoaded THEN [start EXCEPT !.pc = "rd_wait"]
                     ELSE [start EXCEPT !.pc = "tick"]
       IN  procs' = [o \in Procs |->
                IF o = p THEN called
                ELSE IF InFlight(procs[o]) THEN [procs[o] EXCEPT !.solo = FALSE]
                ELSE procs[o]]
    /\ access' = IF access = "none" THEN "first" ELSE "later"
    /\ prev' = PrevAtCall(p, op, arg)
    /\ log' = LogAtCall(p, op)
    /\ scen' = ScenAtCall(p, op, arg)
    /\ UNCHANGED <<data, dataLoaded, errorOccurred, defaultData, path, file,
                   fault, connected>>
    /\ UNCHANGED <<supplied, listener, dataListener, backup, accessor, taskVars>>

\* ---------------------------------------------------------------- loadData
\* A faulty test: a file that does not parse is taken for an absent one.
ENOENTOrSyntaxError(rd) == rd.kind \in {"absent", "malformed"}

\* (error as NodeJS.ErrnoException).code === 'ENOENT'
ENOENT(rd) == rd.kind = "absent"

\* readFile(this._path, 'utf-8') completes, with the content or an error
ReadIO(p) ==
    /\ procs[p].pc = "rd_wait"
    /\ procs' = [procs EXCEPT ![p].pc = "rd_done", ![p].rd = file,
                              ![p].io = @ \cup {path},
                              ![p].failed = file.kind \notin {"json", "absent"}]
    /\ UNCHANGED <<data, dataLoaded, errorOccurred, defaultData, path, file,
                   fault, connected, access, calls, prev, log, scen>>
    /\ UNCHANGED <<supplied, listener, dataListener, backup, accessor, taskVars>>

\* loadData resumes after readFile: parse and mark loaded; on ENOENT start
\* empty and save; any other error is rethrown to the operation's catch
LoadResume(p) ==
    LET pr == procs[p] IN
    /\ pr.pc = "rd_done"
    /\ CASE pr.rd.kind = "json" ->
              /\ data' = Parse(pr.rd.recs)
              /\ dataLoaded' = TRUE
              /\ connected' = connected + 1
              /\ procs' = [procs EXCEPT ![p].pc = "tick", ![p].rd = NoFile,
                               ![p].ev = Append(pr.ev, ConnectedEvent(path))]
              /\ UNCHANGED <<errorOccurred, log>>
         [] ENOENT(pr.rd) ->
              /\ data' = <<>>
              /\ procs' = [procs EXCEPT ![p].pc = "ldwr_wait", ![p].rd = NoFile,
                                        ![p].wr = Stringify(<<>>)]
              /\ UNCHANGED <<dataLoaded, connected, errorOccurred, log>>
         [] OTHER ->
              /\ Catch(p)
              /\ UNCHANGED <<data, dataLoaded, connected>>
    /\ UNCHANGED <<defaultData, path, file, fault, access, calls, prev, scen>>
    /\ UNCHANGED <<supplied, listener, dataListener, backup, accessor, taskVars>>

\* ---------------------------------------------------------------- save
\* A faulty writeFile: it reports success and leaves the file as it was.
WriteIODropped(p) ==
    LET pr == procs[p] IN
    /\ pr.pc \in {"ldwr_wait", "wr_wait"}
    /\ procs' = [procs EXCEPT
                   ![p].pc = IF pr.pc = "ldwr_wait" THEN "ldwr_done" ELSE "wr_done",
                   ![p].ok = TRUE,
                   ![p].io = @ \cup {path},
                   ![p].wr = <<>>]
    /\ UNCHANGED <<data, dataLoaded, errorOccurred, defaultData, path, file,
                   fault, connected, access, calls, prev, log, scen>>
    /\ UNCHANGED <<supplied, listener, dataListener, backup, accessor, taskVars>>

\* writeFile(this._path, text) completes: the file holds the text handed to
\* it when save was called, or the write fails
WriteIO(p) ==
    LET pr == procs[p] IN
    /\ pr.pc \in {"ldwr_wait", "wr_wait"}
    /\ file' = IF fault = "write" THEN file ELSE JsonFile(pr.wr)
    /\ procs' = [procs EXCEPT
                   ![p].pc = IF pr.pc = "ldwr_wait" THEN "ldwr_done" ELSE "wr_done",
                   ![p].ok = (fault # "write"),
                   ![p].failed = (fault = "write"),
                   ![p].io = @ \cup {path},
                   ![p].wr = <<>>]
    /\ UNCHANGED <<data, dataLoaded, errorOccurred, defaultData, path, fault,
                   connected, access, calls, prev, log, scen>>
    /\ UNCHANGED <<supplied, listener, dataListener, backup, accessor, taskVars>>

\* loadData resumes after the save of its ENOENT branch; it returns without
\* setting dataLoaded and without emitting 'connected'
LoadSaveResume(p) ==
    LET pr == procs[p] IN
    /\ pr.pc = "ldwr_done"
    /\ IF pr.ok
       THEN /\ procs' = [procs EXCEPT ![p].pc = "tick"]
            /\ UNCHANGED <<errorOccurred, log>>
       ELSE Catch(p)
    /\ UNCHANGED <<data, dataLoaded, defaultData, path, file, fault, connected,
                   access, calls, prev, scen>>
    /\ UNCHANGED <<supplied, listener, dataListener, backup, accessor, taskVars>>

\* ------------------------------------------------------------------ bodies
\* The operation resumes after `await this.loadData()`.
Body(p) ==
    LET pr == procs[p]
        q == pr.arg.q
    IN
    /\ pr.pc = "tick"
    /\ CASE pr.op = "insert" /\ ~pr.arg.given ->
              /\ AbsentArgument(p)
              /\ UNCHANGED <<data, errorOccurred>>
         [] pr.op = "insert" /\ pr.arg.given ->
              LET newEntry == Spread(defaultData, q)
                  pushed == Append(data, newEntry)
              IN  /\ data' = pushed
                  /\ procs' = [procs EXCEPT ![p].pc = "wr_wait",
                                            ![p].newEntry = newEntry,
                                            ![p].wr = Stringify(pushed)]
                  /\ UNCHANGED <<errorOccurred, log>>
         [] pr.op = "getAll" ->
              /\ Return(p, RSeq(data), pr.ev)
              /\ UNCHANGED <<data, errorOccurred>>
         [] pr.op = "deleteAll" ->
              /\ data' = <<>>
              /\ procs' = [procs EXCEPT ![p].pc = "wr_wait",
                                        ![p].originalLength = Len(data),
                                        ![p].wr = Stringify(<<>>)]
              /\ UNCHANGED <<errorOccurred, log>>
         [] pr.op = "get" /\ ~pr.arg.given ->
              /\ AbsentArgument(p)
              /\ UNCHANGED <<data, errorOccurred>>
         [] pr.op = "get" /\ pr.arg.given ->
              /\ Return(p, Find(data, q), pr.ev)
              /\ UNCHANGED <<data, errorOccurred>>
         [] pr.op = "delete" /\ EmptyQuery(pr.arg) ->
              /\ Catch(p)
              /\ UNCHANGED data
         [] pr.op = "delete" /\ ~EmptyQuery(pr.arg) ->
              LET kept == DeleteFilter(data, q)
              IN  /\ data' = kept
                  /\ procs' = [procs EXCEPT ![p].pc = "wr_wait",
                                   ![p].originalLength = Len(data),
                                   ![p].deletedCount = Len(data) - Len(kept),
                                   ![p].wr = Stringify(kept)]
                  /\ UNCHANGED <<errorOccurred, log>>
         [] pr.op = "dataExists" /\ EmptyQuery(pr.arg) ->
              /\ Catch(p)
              /\ UNCHANGED data
         [] pr.op = "dataExists" /\ ~EmptyQuery(pr.arg) ->
              /\ Return(p, RBool(Some(data, q)), pr.ev)
              /\ UNCHANGED <<data, errorOccurred>>
         [] pr.op = "countEntries" ->
              /\ Return(p, RNum(CountFilter(data, q)), pr.ev)
              /\ UNCHANGED <<data, errorOccurred>>
         [] pr.op = "filterData" ->
              /\ Return(p, RSeq(FilterData(data, q)), pr.ev)
              /\ UNCHANGED <<data, errorOccurred>>
         [] pr.op = "findDistinct" /\ ~pr.inner ->
              \* const data = await this.getAll(), which awaits loadData again
              /\ procs' = [procs EXCEPT ![p].inner = TRUE,
                               ![p].pc = IF NotLoaded THEN "rd_wait" ELSE "tick"]
              /\ UNCHANGED <<data, errorOccurred, log>>
         [] pr.op = "findDistinct" /\ pr.inner ->
              /\ Return(p, RSeq(Distinct(data, pr.arg.field)), pr.ev)
              /\ UNCHANGED <<data, errorOccurred>>
         [] pr.op = "paginateData" ->
              LET start == (pr.arg.page - 1) * pr.arg.pageSize
                  end == start + pr.arg.pageSize
              IN  /\ Return(p, RSeq(Slice(data, start, end)), pr.ev)
                  /\ UNCHANGED <<data, errorOccurred>>
    /\ UNCHANGED <<dataLoaded, defaultData, path, file, fault, connected,
                   access, calls, prev, scen>>
    /\ UNCHANGED <<supplied, listener, dataListener, backup, accessor, taskVars>>

\* A faulty resumption: the outcome of the write is not looked at.
SaveResumeAnyway(p) ==
    LET pr == procs[p] IN
    /\ pr.pc = "wr_done"
    /\ IF TRUE
       THEN CASE pr.op = "insert" ->
                   EmitThenReturn(p, RRec(pr.newEntry),
                                  NewDataEvent(pr.newEntry))
              [] pr.op = "deleteAll" ->
                   EmitThenReturn(p, RBool(TRUE),
                                  DataDeletedEvent(pr.originalLength, 0))
              [] pr.op = "delete" ->
                   EmitThenReturn(p, RNum(pr.deletedCount),
                                  DataDeletedEvent(pr.originalLength, Len(data)))
       ELSE Catch(p)
    /\ UNCHANGED <<data, dataLoaded, defaultData, path, file, fault, connected,
                   access, calls, prev, scen>>
    /\ UNCHANGED <<supplied, listener, dataListener, backup, accessor, taskVars>>

\* The mutating operation resumes after `await this.save()`: it emits its
\* event and returns, or the failed write lands in its catch block.
SaveResume(p) ==
    LET pr == procs[p] IN
    /\ pr.pc = "wr_done"
    /\ IF pr.ok
       THEN CASE pr.op = "insert" ->
                   EmitThenReturn(p, RRec(pr.newEntry),
                                  NewDataEvent(pr.newEntry))
              [] pr.op = "deleteAll" ->
                   EmitThenReturn(p, RBool(TRUE),
                                  DataDeletedEvent(pr.originalLength, 0))
              [] pr.op = "delete" ->
                   EmitThenReturn(p, RNum(pr.deletedCount),
                                  DataDeletedEvent(pr.originalLength, Len(data)))
       ELSE Catch(p)
    /\ UNCHANGED <<data, dataLoaded, defaultData, path, file, fault, connected,
                   access, calls, prev, scen>>
    /\ UNCHANGED <<supplied, listener, dataListener, backup, accessor, taskVars>>

\* The caller's await takes the result: the call is over.
Settle(p) ==
    /\ procs[p].pc = "done"
    /\ procs' = [procs EXCEPT ![p] = IdleProc]
    /\ prev' = PrevAtSettle(p)
    /\ log' = LogAtSettle(procs[p])
    /\ UNCHANGED <<data, dataLoaded, errorOccurred, defaultData, path, file,
                   fault, connected, access, calls, scen>>
    /\ UNCHANGED <<supplied, listener, dataListener, backup, accessor, taskVars>>

\* ------------------------------------------------------------- environment
\* The file system starts or stops refusing reads or writes, between
\* operations.
SetFault(f) ==
    /\ Quiet
    /\ f \in Faults \ {fault}
    /\ fault' = f
    /\ prev' = NoPrev
    /\ scen' = -1
    /\ UNCHANGED <<data, dataLoaded, errorOccurred, defaultData, path, file,
                   connected, procs, access, calls, log>>
    /\ UNCHANGED <<supplied, listener, dataListener, backup, accessor, taskVars>>

\* createDatabase(path, defaultData) again: a fresh handle over the same file
NewHandle ==
    /\ Quiet
    /\ access # "none"
    /\ data' = <<>>
    /\ dataLoaded' = FALSE
    /\ errorOccurred' = FALSE
    /\ connected' = 0
    /\ access' = "none"
    /\ prev' = NoPrev
    /\ scen' = -1
    /\ UNCHANGED <<defaultData, path, file, fault, procs, calls, log>>
    /\ UNCHANGED <<supplied, listener, dataListener, backup, accessor, taskVars>>

\* ------------------------------------------------------------ scheduleTask
\* A timer made by setTimeout(callback, delay) at instant at.
NewTimer(task, at, delay) ==
    [task |-> task, due |-> at + delay, state |-> "pending", starts |-> 0,
     errors |-> 0, escaped |-> FALSE, cancel |-> "no"]

\* A faulty check: a task scheduled for this very instant is refused too.
TooEarlyOrNow(delay) == delay <= 0

\* if (delay < 0)
TooEarly(delay) == delay < 0

\* scheduleTask(task, date): throws when date is before now, else sets a
\* timer for the delay and returns its handle
ScheduleTask(task, date) ==
    LET delay == date - now
        raised == TooEarly(delay)
    IN  /\ raised \/ Len(timers) < MaxTimers
        /\ sched' = [called |-> TRUE, date |-> date, at |-> now, raised |-> raised]
        /\ timers' = IF raised THEN timers
                      ELSE Append(timers, NewTimer(task, now, delay))
        /\ UNCHANGED <<storeVars, supplied, listener, dataListener, backup, accessor, now>>

\* Time passes.
Tick ==
    /\ now < MaxTime
    /\ now' = now + 1
    /\ sched' = NoSched
    /\ UNCHANGED <<storeVars, supplied, listener, dataListener, backup, accessor, timers>>

\* A faulty timer: it stays armed after it has fired.
TimerFiresAgain(t) ==
    /\ t \in 1..Len(timers)
    /\ timers[t].state \in {"pending", "running", "finished"}
    /\ timers[t].starts < 2
    /\ now >= timers[t].due
    /\ timers' = [timers EXCEPT ![t].state = "running", ![t].starts = @ + 1]
    /\ sched' = NoSched
    /\ UNCHANGED <<storeVars, supplied, listener, dataListener, backup, accessor, now>>

\* The host runs the callback of a due timer: `await task()` starts the task.
TimerFires(t) ==
    /\ t \in 1..Len(timers)
    /\ timers[t].state = "pending"
    /\ now >= timers[t].due
    /\ timers' = [timers EXCEPT ![t].state = "running", ![t].starts = @ + 1]
    /\ sched' = NoSched
    /\ UNCHANGED <<storeVars, supplied, listener, dataListener, backup, accessor, now>>

\* The task's promise settles: a rejection is caught by the callback, which
\* emits 'error'; emit throws when the listener throws or none is
\* registered, and the callback's own promise then rejects with no handler.
TaskSettles(t) ==
    /\ t \in 1..Len(timers)
    /\ timers[t].state = "running"
    /\ timers' = [timers EXCEPT
                    ![t].state = "finished",
                    ![t].errors = IF timers[t].task = "rejects" THEN @ + 1 ELSE @,
                    ![t].escaped = timers[t].task = "rejects" /\ listener # "ok"]
    /\ sched' = NoSched
    /\ UNCHANGED <<storeVars, supplied, listener, dataListener, backup, accessor, now>>

\* clearTimeout(handle): a pending timer is disarmed; a callback that has
\* started is not affected.
ClearTimeout(t) ==
    /\ t \in 1..Len(timers)
    /\ timers[t].cancel = "no"
    /\ timers' = IF timers[t].state = "pending"
                  THEN [timers EXCEPT ![t].state = "cleared", ![t].cancel = "pending"]
                  ELSE [timers EXCEPT ![t].cancel = "late"]
    /\ sched' = NoSched
    /\ UNCHANGED <<storeVars, supplied, listener, dataListener, backup, accessor, now>>

\* ------------------------------------------------------------ createBackup
\* createBackup(db, backupPath) up to its writeFile: it throws when an
\* argument is missing or the store is not loaded; else it takes the
\* sequence from db.getAll(), which on a loaded store reads nothing, and
\* hands its serialization to writeFile under the resolved backup path
CreateBackup(db, backupPath) ==
    LET call == [NoBackup EXCEPT !.db = db, !.backupPath = backupPath,
                     !.given = backupPath,
                     !.before = <<file, data, dataLoaded, errorOccurred>>]
    IN
    /\ Quiet
    /\ backup.pc = "idle"
    /\ backup' =
          IF ~db \/ backupPath = <<>> \/ ~dataLoaded
          THEN [call EXCEPT !.pc = "done", !.result = RRaise]
          ELSE [call EXCEPT !.pc = "wr_wait",
                            !.backupPath = ResolveBackupPath(backupPath),
                            !.text = Stringify(data)]
    /\ UNCHANGED <<storeVars, supplied, listener, dataListener, accessor, taskVars>>

\* writeFile(backupPath, text) completes and createBackup returns true, or
\* the write fails and createBackup rethrows
BackupWriteIO(ok) ==
    /\ backup.pc = "wr_wait"
    /\ backup' = [backup EXCEPT
                    !.pc = "done", !.failed = ~ok,
                    !.result = IF ok THEN RBool(TRUE) ELSE RRaise,
                    !.written = IF ok THEN [path |-> backup.backupPath,
                                            recs |-> backup.text]
                                ELSE NoWrite]
    /\ UNCHANGED <<storeVars, supplied, listener, dataListener, accessor, taskVars>>

\* The caller's await takes createBackup's result.
BackupSettle ==
    /\ backup.pc = "done"
    /\ backup' = NoBackup
    /\ UNCHANGED <<storeVars, supplied, listener, dataListener, accessor, taskVars>>

\* --------------------------------------------------------------- accessors
\* The caller reads db.data, db.path or db.defaultData: the getter is entered.
ReadAccessor(name) ==
    /\ Quiet
    /\ accessor.pc = "idle"
    /\ accessor' = [NoAccess EXCEPT !.pc = "running", !.name = name, !.depth = 1]
    /\ UNCHANGED <<storeVars, supplied, listener, dataListener, backup, taskVars>>

\* The getter's body: `return this.#data` gives the sequence;
\* `return this.path` and `return this.defaultData` read the very property
\* the getter defines, which enters the getter again, one frame deeper, until
\* the stack is full and the engine raises RangeError
AccessorBody ==
    /\ accessor.pc = "running"
    /\ accessor' =
          IF accessor.name = "data"
          THEN [accessor EXCEPT !.pc = "done", !.result = RValue(data)]
          ELSE IF accessor.depth < MaxStack
          THEN [accessor EXCEPT !.depth = @ + 1]
          ELSE [accessor EXCEPT !.pc = "done", !.result = RRaise]
    /\ UNCHANGED <<storeVars, supplied, listener, dataListener, backup, taskVars>>

\* The caller has the outcome of the read.
AccessorSettle ==
    /\ accessor.pc = "done"
    /\ accessor' = NoAccess
    /\ UNCHANGED <<storeVars, supplied, listener, dataListener, backup, taskVars>>

\* ---------------------------------------------------------- specifications
Step(p) ==
    \/ ReadIO(p)
    \/ LoadResume(p)
    \/ WriteIO(p)
    \/ LoadSaveResume(p)
    \/ Body(p)
    \/ SaveResume(p)
    \/ Settle(p)

\* An operation is called only after the one before it has returned.
SeqCall ==
    \E op \in Ops : \E arg \in ArgsOf(op) :
        Quiet /\ Call(1, op, arg) /\ UNCHANGED calls

\* Operations are called while others are in flight.
ConcCall(p) ==
    \E op \in Ops : \E arg \in ArgsOf(op) :
        calls < MaxCalls /\ Call(p, op, arg) /\ calls' = calls + 1

SeqNext ==
    \/ SeqCall
    \/ Step(1)
    \/ \E f \in Faults : SetFault(f)
    \/ NewHandle

Next == \E p \in Procs : ConcCall(p) \/ Step(p)

\* A handle with any 'error' listener, or none, and no operation called yet.
TaskInit ==
    /\ data = <<>>
    /\ dataLoaded = FALSE
    /\ errorOccurred = FALSE
    /\ defaultData = ReadmeTemplate
    /\ supplied = ReadmePath
    /\ path = ResolvePath(supplied)
    /\ file = NoFile
    /\ fault = "none"
    /\ connected = 0
    /\ procs = [p \in Procs |-> IdleProc]
    /\ access = "none"
    /\ calls = 0
    /\ prev = NoPrev
    /\ log = FileLog(file)
    /\ scen = -1
    /\ listener \in Listeners
    /\ dataListener = "returns"
    /\ backup = NoBackup
    /\ accessor = NoAccess
    /\ now = 0
    /\ timers = <<>>
    /\ sched = NoSched

TaskNext ==
    \/ \E task \in Tasks, date \in Times : ScheduleTask(task, date)
    \/ Tick
    \/ \E t \in 1..MaxTimers : TimerFires(t)
    \/ \E t \in 1..MaxTimers : TaskSettles(t)
    \/ \E t \in 1..MaxTimers : ClearTimeout(t)

TaskSpec == TaskInit /\ [][TaskNext]_vars

\* The host lets time pass and runs due timers; a started task settles.
TaskFairness ==
    /\ WF_vars(Tick)
    /\ \A t \in 1..MaxTimers : WF_vars(TimerFires(t)) /\ WF_vars(TaskSettles(t))

TaskLiveSpec == TaskSpec /\ TaskFairness

\* A handle constructed with any of the supplied paths.
PathInit ==
    /\ data = <<>>
    /\ dataLoaded = FALSE
    /\ errorOccurred = FALSE
    /\ defaultData = ReadmeTemplate
    /\ supplied \in SuppliedPaths
    /\ path = ResolvePath(supplied)
    /\ file \in {NoFile, JsonFile(<<JohnRec>>)}
    /\ fault = "none"
    /\ connected = 0
    /\ procs = [p \in Procs |-> IdleProc]
    /\ access = "none"
    /\ calls = 0
    /\ prev = NoPrev
    /\ log = FileLog(file)
    /\ scen = -1
    /\ listener = "ok"
    /\ dataListener = "returns"
    /\ backup = NoBackup
    /\ accessor = NoAccess
    /\ now = 0
    /\ timers = <<>>
    /\ sched = NoSched

PathNext == SeqCall \/ Step(1) \/ NewHandle

PathSpec == PathInit /\ [][PathNext]_vars

\* A handle with any 'error' listener, or none.
ListenerInit ==
    /\ data = <<>>
    /\ dataLoaded = FALSE
    /\ errorOccurred = FALSE
    /\ defaultData = ReadmeTemplate
    /\ supplied = ReadmePath
    /\ path = ResolvePath(supplied)
    /\ file \in InitFiles
    /\ fault \in Faults
    /\ connected = 0
    /\ procs = [p \in Procs |-> IdleProc]
    /\ access = "none"
    /\ calls = 0
    /\ prev = NoPrev
    /\ log = FileLog(file)
    /\ scen = -1
    /\ listener \in Listeners
    /\ dataListener = "returns"
    /\ backup = NoBackup
    /\ accessor = NoAccess
    /\ now = 0
    /\ timers = <<>>
    /\ sched = NoSched

ListenerSpec == ListenerInit /\ [][SeqNext]_vars

\* A handle whose 'newData' and 'dataDeleted' listeners return, or throw.
DataListenerInit ==
    /\ data = <<>>
    /\ dataLoaded = FALSE
    /\ errorOccurred = FALSE
    /\ defaultData = ReadmeTemplate
    /\ supplied = ReadmePath
    /\ path = ResolvePath(supplied)
    /\ file \in {NoFile, JsonFile(<<>>), JsonFile(<<JohnRec>>)}
    /\ fault \in Faults
    /\ connected = 0
    /\ procs = [p \in Procs |-> IdleProc]
    /\ access = "none"
    /\ calls = 0
    /\ prev = NoPrev
    /\ log = FileLog(file)
    /\ scen = -1
    /\ listener = "ok"
    /\ dataListener \in DataListeners
    /\ backup = NoBackup
    /\ accessor = NoAccess
    /\ now = 0
    /\ timers = <<>>
    /\ sched = NoSched

DataListenerSpec == DataListenerInit /\ [][SeqNext]_vars

\* A handle just constructed, or one on which a first getAll has returned
\* with the content of its file, before overlapping calls are made.
OverlapInit ==
    /\ dataLoaded \in BOOLEAN
    /\ file \in IF dataLoaded THEN {JsonFile(<<>>), JsonFile(<<JohnRec>>)}
                ELSE {NoFile, JsonFile(<<>>), JsonFile(<<JohnRec>>)}
    /\ data = IF dataLoaded THEN Parse(file.recs) ELSE <<>>
    /\ connected = IF dataLoaded THEN 1 ELSE 0
    /\ access = IF dataLoaded THEN "later" ELSE "none"
    /\ errorOccurred = FALSE
    /\ defaultData = ReadmeTemplate
    /\ supplied = ReadmePath
    /\ path = ResolvePath(supplied)
    /\ fault = "none"
    /\ procs = [p \in Procs |-> IdleProc]
    /\ calls = 0
    /\ prev = NoPrev
    /\ log = Unknown
    /\ scen = -1
    /\ listener = "ok"
    /\ dataListener = "returns"
    /\ backup = NoBackup
    /\ accessor = NoAccess
    /\ now = 0
    /\ timers = <<>>
    /\ sched = NoSched

OverlapSpec == OverlapInit /\ [][Next]_vars

\* A handle over no file or a file of one record, no failing store I/O.
BackupInit ==
    /\ data = <<>>
    /\ dataLoaded = FALSE
    /\ errorOccurred = FALSE
    /\ defaultData = ReadmeTemplate
    /\ supplied = ReadmePath
    /\ path = ResolvePath(supplied)
    /\ file \in {NoFile, JsonFile(<<JohnRec>>)}
    /\ fault = "none"
    /\ connected = 0
    /\ procs = [p \in Procs |-> IdleProc]
    /\ access = "none"
    /\ calls = 0
    /\ prev = NoPrev
    /\ log = FileLog(file)
    /\ scen = -1
    /\ listener = "ok"
    /\ dataListener = "returns"
    /\ backup = NoBackup
    /\ accessor = NoAccess
    /\ now = 0
    /\ timers = <<>>
    /\ sched = NoSched

\* Store operations and createBackup, each awaited before the next call.
BackupNext ==
    \/ backup.pc = "idle" /\ SeqCall
    \/ Step(1)
    \/ \E db \in BOOLEAN, backupPath \in BackupPaths : CreateBackup(db, backupPath)
    \/ \E ok \in BOOLEAN : BackupWriteIO(ok)
    \/ BackupSettle

BackupSpec == BackupInit /\ [][BackupNext]_vars

\* Store operations and property reads, one after the other.
AccessorNext ==
    \/ accessor.pc = "idle" /\ SeqCall
    \/ Step(1)
    \/ \E name \in Accessors : ReadAccessor(name)
    \/ AccessorBody
    \/ AccessorSettle

AccessorSpec == BackupInit /\ [][AccessorNext]_vars

SeqSpec == Init /\ [][SeqNext]_vars

Spec == Init /\ [][Next]_vars

\* -------------------------------------------------------------- properties
Returned(pr, op) == pr.pc = "done" /\ pr.op = op

\* D overlaid field by field with P: P's value on every field P supplies.
Overlay(D, P) == [f \in Fields |-> IF f \in DOMAIN P THEN P[f] ELSE D[f]]

\* Every field present in q is strictly equal to the same field of the record.
MatchesQuery(r, q) == \A f \in DOMAIN q : r[f] = q[f]

MatchingInOrder(recs, q) ==
    LET Hit(r) == MatchesQuery(r, q) IN SelectSeq(recs, Hit)

NonMatchingInOrder(recs, q) ==
    LET Miss(r) == ~MatchesQuery(r, q) IN SelectSeq(recs, Miss)

\* C1: a successful insert(P), P non-empty, appends exactly one record equal
\* to the default template overlaid with P at the end of the in-memory
\* sequence, leaves all earlier records unchanged and in order, and returns
\* that record.
C1_InsertAppendsOverlay ==
    \A p \in Procs :
        LET pr == procs[p] IN
        (Returned(pr, "insert") /\ ~EmptyQuery(pr.arg) /\ pr.result.kind = "rec")
        => /\ pr.result.val = Overlay(defaultData, pr.arg.q)
           /\ data = Append(pr.pre, pr.result.val)

\* C2: after N successful sequential inserts through one handle, a fresh
\* handle over the same path loads exactly the records the file held before
\* plus the N inserted ones, field for field, in insertion order.
C2_ReloadGivesInserted ==
    \A p \in Procs :
        LET pr == procs[p] IN
        (Returned(pr, "getAll") /\ access = "first" /\ log.known
            /\ pr.result.kind = "seq")
        => pr.result.val = log.recs

\* No field of the record holds a function.
Representable(r) == \A f \in Fields : r[f] # Fn

\* C2 as amended: the same, for records whose every field value JSON can
\* represent.
C2_ReloadGivesRepresentable ==
    \A p \in Procs :
        LET pr == procs[p] IN
        (Returned(pr, "getAll") /\ access = "first" /\ log.known
            /\ pr.result.kind = "seq"
            /\ \A i \in 1..Len(log.recs) : Representable(log.recs[i]))
        => pr.result.val = log.recs

\* A fresh handle has reloaded two inserted records.
C2_Witness ==
    /\ Returned(procs[1], "getAll") /\ access = "first" /\ log.known
    /\ connected = 1
    /\ Len(log.recs) = 2
    /\ \A i \in 1..Len(log.recs) : Representable(log.recs[i])
    /\ procs[1].result = RSeq(log.recs)

Positive(res) == res.kind = "num" /\ res.val > 0

\* C3: for every non-empty query q, dataExists(q) returns true exactly when
\* countEntries(q) returns a number greater than 0, the two called back to
\* back.
C3_ExistsIffCountPositive ==
    \A p \in Procs :
        LET pr == procs[p] IN
        /\ (Returned(pr, "countEntries") /\ prev.op = "dataExists")
           => ((prev.result.kind = "bool" /\ prev.result.val) <=> Positive(pr.result))
        /\ (Returned(pr, "dataExists") /\ prev.op = "countEntries")
           => ((pr.result.kind = "bool" /\ pr.result.val) <=> Positive(prev.result))

\* dataExists answered true and countEntries then counted two records.
C3_Witness ==
    /\ Returned(procs[1], "countEntries") /\ prev.op = "dataExists"
    /\ prev.result = RBool(TRUE)
    /\ procs[1].result = RNum(2)

\* The count and the filter agree: as many records, or both failed.
CountAgrees(c, f) ==
    \/ c.kind = "num" /\ f.kind = "seq" /\ c.val = Len(f.val)
    \/ c.kind = "undefined" /\ f.kind = "undefined"

\* C4: for every non-empty query q, countEntries(q) equals the number of
\* records filterData returns for the predicate 'every field of q equals the
\* record's', and filterData returns those records in sequence order.
C4_CountEqualsFilterSize ==
    \A p \in Procs :
        LET pr == procs[p] IN
        /\ (Returned(pr, "filterData") /\ prev.op = "countEntries")
           => /\ CountAgrees(prev.result, pr.result)
              /\ pr.result.kind = "seq"
                 => pr.result.val = MatchingInOrder(data, pr.arg.q)
        /\ (Returned(pr, "countEntries") /\ prev.op = "filterData")
           => /\ CountAgrees(pr.result, prev.result)
              /\ prev.result.kind = "seq"
                 => prev.result.val = MatchingInOrder(data, pr.arg.q)

\* countEntries counted one of two records and filterData returned it.
C4_Witness ==
    /\ Returned(procs[1], "filterData") /\ prev.op = "countEntries"
    /\ prev.result = RNum(1)
    /\ Len(data) = 2
    /\ procs[1].result = RSeq(<<data[2]>>)

\* The record get returns is the earliest that equals q on every field of q.
EarliestMatch(res, recs, q) ==
    res.kind = "rec" =>
        \E i \in 1..Len(recs) :
            /\ recs[i] = res.val
            /\ MatchesQuery(recs[i], q)
            /\ \A j \in 1..(i - 1) : ~MatchesQuery(recs[j], q)

\* C5: get(q) returns the earliest record that equals q on every field of
\* q, and returns not-found exactly when countEntries(q) is 0.
C5_GetEarliestNotFoundIffZero ==
    \A p \in Procs :
        LET pr == procs[p] IN
        /\ Returned(pr, "get") /\ ~EmptyQuery(pr.arg)
           => EarliestMatch(pr.result, data, pr.arg.q)
        /\ (Returned(pr, "countEntries") /\ prev.op = "get")
           => ((prev.result.kind = "undefined") <=> (pr.result = RNum(0)))
        /\ (Returned(pr, "get") /\ prev.op = "countEntries")
           => ((pr.result.kind = "undefined") <=> (prev.result = RNum(0)))

NoneCounted(res) == res = RNum(0) \/ res.kind = "undefined"

\* C5 as amended: get(q) returns the earliest matching record, and returns
\* not-found exactly when countEntries(q) returns 0 or, the load failing,
\* undefined.
C5_GetEarliestNotFoundIffNoneCounted ==
    \A p \in Procs :
        LET pr == procs[p] IN
        /\ Returned(pr, "get") /\ ~EmptyQuery(pr.arg)
           => EarliestMatch(pr.result, data, pr.arg.q)
        /\ (Returned(pr, "countEntries") /\ prev.op = "get")
           => ((prev.result.kind = "undefined") <=> NoneCounted(pr.result))
        /\ (Returned(pr, "get") /\ prev.op = "countEntries")
           => ((pr.result.kind = "undefined") <=> NoneCounted(prev.result))

\* get returned the second of two records, and countEntries counted it.
C5_Witness ==
    /\ Returned(procs[1], "countEntries") /\ prev.op = "get"
    /\ Len(data) = 2
    /\ prev.result = RRec(data[2])
    /\ data[1] # data[2]
    /\ procs[1].result = RNum(1)

\* C6: a successful delete(q), q non-empty, removes exactly the records
\* matching q, keeps the others in their order, returns the number removed
\* (the countEntries(q) of just before), and right afterwards dataExists(q)
\* is false and the file holds the records of memory.
C6_DeleteRemovesMatching ==
    \A p \in Procs :
        LET pr == procs[p] IN
        /\ (Returned(pr, "delete") /\ ~EmptyQuery(pr.arg)
                /\ HasEvent(pr.ev, "dataDeleted"))
           => /\ data = NonMatchingInOrder(pr.pre, pr.arg.q)
              /\ pr.result = RNum(Len(pr.pre) - Len(data))
              /\ prev.op = "countEntries" => prev.result = pr.result
              /\ file = JsonFile(Stringify(data))
        /\ (Returned(pr, "dataExists") /\ prev.op = "delete" /\ ~prev.err)
           => pr.result = RBool(FALSE)

NoErrorSoFar ==
    /\ ~errorOccurred
    /\ \A p \in Procs : ~HasEvent(procs[p].ev, "error")

\* C7: from a path with no file, insert({Name:John, ID:1}) leaves the file
\* holding exactly that record; get({Name:John}) returns it;
\* delete({Name:John}) returns 1 and leaves no record in memory or in the
\* file; getAll() returns the empty sequence; no error event is emitted.
C7_ReadmeScenario ==
    LET pr == procs[1] IN
    /\ scen >= 1 => NoErrorSoFar
    /\ (scen = 1 /\ pr.pc = "done")
       => pr.result = RRec(JohnRec) /\ file = JsonFile(<<JohnRec>>)
    /\ (scen = 2 /\ pr.pc = "done") => pr.result = RRec(JohnRec)
    /\ (scen = 3 /\ pr.pc = "done")
       => pr.result = RNum(1) /\ data = <<>> /\ file = JsonFile(<<>>)
    /\ (scen = 4 /\ pr.pc = "done") => pr.result = RSeq(<<>>)

\* The scenario has run to the end of its getAll.
C7_Witness == scen = 4 /\ procs[1].pc = "done" /\ procs[1].op = "getAll"

\* C8: after the first public operation on a handle completes without an
\* operational error, dataLoaded is true, whether the file existed or was
\* absent and written empty.
C8_LoadedAfterFirstOperation ==
    \A p \in Procs :
        LET pr == procs[p] IN
        (pr.pc = "done" /\ access = "first" /\ ~Failed(pr)) => dataLoaded

ReadOps == {"getAll", "get", "dataExists", "countEntries", "filterData"}

\* C9: of two first-access operations run one after the other, the second
\* load is a no-op: the in-memory sequence has the same content after it as
\* after the first, and 'connected' has been emitted exactly once, carrying
\* the resolved path.
C9_SecondLoadIsNoOp ==
    \A p \in Procs :
        LET pr == procs[p] IN
        (pr.pc = "done" /\ prev.first /\ ~prev.err /\ ~Failed(pr))
        => /\ connected = 1
           /\ pr.op \in ReadOps => data = pr.pre
           /\ \A i \in 1..Len(pr.ev) :
                 pr.ev[i].name = "connected" => pr.ev[i].Path = path

\* C10: in any interleaving of operations on one handle, 'connected' is
\* emitted at most once.
C10_ConnectedAtMostOnce == connected <= 1

\* The operations that only read the store.
QueryOps == ReadOps \cup {"findDistinct", "paginateData"}

\* Arguments the operation accepts: not refused before the try block, and a
\* query with at least one key where the operation takes a query or a record.
ValidArgs(op, arg) ==
    /\ ~Raises(op, arg)
    /\ op \in {"insert", "get", "delete", "dataExists"} => ~EmptyQuery(arg)

\* What a read operation reports of an empty store.
EmptyReport(op) ==
    CASE op = "get" -> RUndefined
      [] op = "dataExists" -> RBool(FALSE)
      [] op = "countEntries" -> RNum(0)
      [] OTHER -> RSeq(<<>>)

\* C11: after the first operation with valid arguments on a handle whose file
\* did not exist, the write succeeding, the file exists; if the operation
\* was a read, the file holds the serialization of the empty sequence and the
\* operation reports an empty store.
C11_AbsentFileCreatedEmpty ==
    LET pr == procs[1] IN
    (/\ pr.pc = "done" /\ access = "first" /\ pr.found = NoFile
     /\ ValidArgs(pr.op, pr.arg) /\ fault = "none")
    => /\ file.kind = "json"
       /\ pr.op \in QueryOps
            => /\ file = JsonFile(Stringify(<<>>))
               /\ pr.result = EmptyReport(pr.op)

C11_Witness ==
    LET pr == procs[1] IN
    /\ pr.pc = "done" /\ access = "first" /\ pr.found = NoFile
    /\ pr.op = "getAll" /\ fault = "none"
    /\ file = JsonFile(<<>>) /\ pr.result = RSeq(<<>>)

\* The positions of an operation inside loadData's read or first save.
LoadingPcs == {"rd_wait", "rd_done", "ldwr_wait", "ldwr_done"}

\* C12: once dataLoaded is true on a handle it never becomes false, and no
\* operation that is not already inside a load reads the file again, so the
\* in-memory sequence is not replaced by file content.
C12_LoadedStaysLoaded ==
    [][(dataLoaded /\ access' # "none")
       => /\ dataLoaded'
          /\ \A p \in Procs :
                procs[p].pc \notin LoadingPcs => procs'[p].pc \notin LoadingPcs]_vars

C12_Witness ==
    \E p \in Procs :
        LET pr == procs[p] IN
        /\ pr.pc = "done" /\ access = "later" /\ dataLoaded
        /\ pr.op = "getAll" /\ pr.ev = <<>> /\ pr.result.kind = "seq"

\* The value each operation is documented to return after an operational
\* failure.
FailureValue(op) ==
    CASE op \in {"getAll", "findDistinct"} -> RNull
      [] op \in {"deleteAll", "dataExists"} -> RBool(FALSE)
      [] op = "delete" -> RNum(0)
      [] OTHER -> RUndefined

\* The number of 'error' events among evs.
ErrorCount(evs) == Cardinality({i \in 1..Len(evs) : evs[i].name = "error"})

\* C13: an operation with valid arguments during which the read (other than
\* not finding the file), the deserialization or a write fails does not
\* raise: it emits exactly one 'error' event, sets errorOccurred and returns
\* its failure value (undefined for insert, get, countEntries, filterData and
\* paginateData; null for getAll and findDistinct; false for deleteAll and
\* dataExists; 0 for delete).
C13_FailureGivesSentinel ==
    \A p \in Procs :
        LET pr == procs[p] IN
        (pr.pc = "done" /\ ValidArgs(pr.op, pr.arg) /\ pr.failed)
        => /\ pr.result = FailureValue(pr.op)
           /\ ErrorCount(pr.ev) = 1
           /\ errorOccurred

C13_Witness ==
    LET pr == procs[1] IN
    /\ pr.pc = "done" /\ pr.op = "delete" /\ ~EmptyQuery(pr.arg) /\ pr.failed
    /\ pr.found.kind = "json" /\ fault = "write"
    /\ pr.result = RNum(0) /\ ErrorCount(pr.ev) = 1 /\ errorOccurred

C15_EmptyQueryRaisesBeforeIO ==
    \A p \in Procs :
        LET pr == procs[p] IN
        (pr.pc = "done" /\ pr.op \in {"delete", "dataExists"} /\ EmptyQuery(pr.arg))
        => /\ pr.result = RRaise
           /\ pr.ev = <<>>
           /\ file = pr.found

\* The calls the operations are documented to refuse before any load.
Refused(op, arg) ==
    \/ op = "countEntries" /\ (~arg.given \/ DOMAIN arg.q = {})
    \/ op \in {"findDistinct", "filterData"} /\ ~arg.given
    \/ op = "paginateData" /\ (~arg.given \/ arg.page <= 0 \/ arg.pageSize <= 0)

\* C16: countEntries with an empty or absent query, findDistinct without a
\* field, filterData without a predicate and paginateData with a missing,
\* zero or negative page or pageSize raise to the caller in the call itself,
\* before any load: the file, the in-memory sequence, dataLoaded and
\* errorOccurred are unchanged and no event is emitted.
C16_UsageErrorBeforeLoad ==
    [][\A p \in Procs :
          (/\ procs[p].pc = "idle" /\ procs'[p].pc # "idle"
           /\ Refused(procs'[p].op, procs'[p].arg))
          => /\ procs'[p].pc = "done"
             /\ procs'[p].result = RRaise
             /\ procs'[p].ev = <<>>
             /\ UNCHANGED <<data, file, dataLoaded, errorOccurred, connected>>]_vars

C16_Witness ==
    \E p \in Procs :
        LET pr == procs[p] IN
        /\ pr.pc = "done" /\ pr.op = "paginateData" /\ pr.arg.given
        /\ pr.arg.page = 0 /\ pr.result = RRaise /\ pr.ev = <<>>
        /\ pr.found = NoFile /\ file = NoFile

\* C17: get called with an empty or absent query emits an 'error' event and
\* returns not-found without raising, whatever the store holds.
C17_GetEmptyQueryNotFound ==
    \A p \in Procs :
        LET pr == procs[p] IN
        (pr.pc = "done" /\ pr.op = "get" /\ EmptyQuery(pr.arg) /\ ~pr.failed)
        => /\ pr.result = RUndefined
           /\ ErrorCount(pr.ev) = 1

\* C18: insert called with an empty or absent record emits an 'error' event,
\* returns no result, and adds no record to the in-memory sequence or to the
\* file.
C18_InsertEmptyAddsNothing ==
    \A p \in Procs :
        LET pr == procs[p] IN
        (pr.pc = "done" /\ pr.op = "insert" /\ EmptyQuery(pr.arg) /\ ~pr.failed)
        => /\ pr.result = RUndefined
           /\ ErrorCount(pr.ev) = 1
           /\ Len(data) = Len(pr.pre)
           /\ Len(file.recs) = Len(pr.found.recs)

\* The records of recs at 0-based indices from..to-1, to clipped to the length.
Page(recs, from, to) ==
    LET upto == IF to < Len(recs) THEN to ELSE Len(recs)
    IN  IF from >= Len(recs) THEN <<>>
        ELSE [i \in 1..(upto - from) |-> recs[from + i]]

\* C19: for page >= 1, pageSize >= 1 and a store of n records, paginateData
\* returns the records at 0-based indices (page-1)*pageSize up to but
\* excluding min(page*pageSize, n), in order, the empty sequence when
\* (page-1)*pageSize >= n; it emits no 'error' event and does not change the
\* store.
C19_PaginateSlice ==
    \A p \in Procs :
        LET pr == procs[p] IN
        (/\ pr.pc = "done" /\ pr.op = "paginateData" /\ pr.solo /\ ~pr.failed
         /\ pr.arg.given /\ pr.arg.page >= 1 /\ pr.arg.pageSize >= 1)
        => /\ pr.result =
                RSeq(Page(pr.pre, (pr.arg.page - 1) * pr.arg.pageSize,
                          pr.arg.page * pr.arg.pageSize))
           /\ ErrorCount(pr.ev) = 0
           /\ data = pr.pre

\* The position of the first record of recs holding v in field.
FirstSeen(recs, field, v) ==
    CHOOSE k \in 1..Len(recs) :
        /\ recs[k][field] = v
        /\ \A j \in 1..(k - 1) : recs[j][field] # v

\* C20: findDistinct(field) returns a sequence with no two equal values,
\* holding exactly the values that occur in that field across the records,
\* ordered by the position of each value's first occurrence.
C20_DistinctFirstSeen ==
    LET pr == procs[1] IN
    (pr.pc = "done" /\ pr.op = "findDistinct" /\ pr.arg.given /\ ~pr.failed)
    => /\ pr.result.kind = "seq"
       /\ LET vals == pr.result.val
               f == pr.arg.field
           IN  /\ \A i, j \in 1..Len(vals) : vals[i] = vals[j] => i = j
               /\ {vals[i] : i \in 1..Len(vals)}
                    = {data[k][f] : k \in 1..Len(data)}
               /\ \A i, j \in 1..Len(vals) :
                     i < j => FirstSeen(data, f, vals[i]) < FirstSeen(data, f, vals[j])

C20_Witness ==
    LET pr == procs[1] IN
    /\ pr.pc = "done" /\ pr.op = "findDistinct" /\ pr.arg.given
    /\ Len(data) = 2 /\ data[1][pr.arg.field] = data[2][pr.arg.field]
    /\ pr.result = RSeq(<<data[1][pr.arg.field]>>)

\* The events of evs with the given name, in order.
EventsNamed(evs, name) == SelectSeq(evs, LAMBDA e : e.name = name)

\* C21: a successful deleteAll leaves the in-memory sequence and the file
\* both empty, emits exactly one 'dataDeleted' event whose OriginalLength is
\* the number of records held just before the call, whose ActualLength is 0
\* and whose Completed is true, and returns true; also when the store was
\* already empty.
C21_DeleteAllEmpties ==
    LET pr == procs[1] IN
    (pr.pc = "done" /\ pr.op = "deleteAll" /\ ~pr.failed)
    => /\ data = <<>>
       /\ file = JsonFile(<<>>)
       /\ pr.result = RBool(TRUE)
       /\ EventsNamed(pr.ev, "dataDeleted")
            = <<[name |-> "dataDeleted", OriginalLength |-> Len(pr.pre),
                 ActualLength |-> 0, Completed |-> TRUE]>>

C21_Witness ==
    LET pr == procs[1] IN
    /\ pr.pc = "done" /\ pr.op = "deleteAll" /\ ~pr.failed
    /\ Len(pr.pre) = 2 /\ data = <<>> /\ pr.result = RBool(TRUE)

\* C22: scheduleTask(task, atTime) raises in the call and registers no timer
\* when atTime is earlier than the current time; otherwise, also when atTime
\* equals the current time, it returns a handle to a new pending timer and
\* the task has not started when scheduleTask returns.
C22_ScheduleRaisesOrArms ==
    [][sched'.called
       => IF sched'.date < now
          THEN sched'.raised /\ timers' = timers
          ELSE /\ ~sched'.raised
               /\ Len(timers') = Len(timers) + 1
               /\ SubSeq(timers', 1, Len(timers)) = timers
               /\ timers'[Len(timers')].state = "pending"
               /\ timers'[Len(timers')].starts = 0]_vars

C22_Witness ==
    /\ sched.called /\ ~sched.raised /\ sched.date = sched.at
    /\ Len(timers) = 1 /\ timers[1].state = "pending" /\ timers[1].starts = 0

\* The t-th timer, or a timer that was never set.
TimerAt(t) ==
    IF t <= Len(timers) THEN timers[t]
    ELSE [task |-> "resolves", due |-> 0, state |-> "unset", starts |-> 0,
          errors |-> 0, escaped |-> FALSE, cancel |-> "no"]

\* A timer has started at most once; cancelled while pending it has not
\* started and is disarmed; cancelled later it has started and runs on.
TimerOrderly(tm) ==
    /\ tm.starts <= 1
    /\ (tm.cancel = "pending") => (tm.starts = 0 /\ tm.state = "cleared")
    /\ (tm.cancel = "late")
         => (tm.starts = 1 /\ tm.state \in {"running", "finished"})

\* C23: a task scheduled and never cancelled eventually starts, and no task
\* starts more than once; a task whose handle is cancelled before its timer
\* fires never starts; cancelling after the task has started does not
\* interrupt it.
C23_TaskStartsOnceUnlessCancelled ==
    \A t \in 1..MaxTimers :
        /\ (TimerAt(t).state = "pending")
              ~> (TimerAt(t).starts = 1 \/ TimerAt(t).cancel = "pending")
        /\ []TimerOrderly(TimerAt(t))
        /\ (TimerAt(t).cancel = "late") ~> (TimerAt(t).state = "finished")

C23_Witness ==
    /\ Len(timers) = 1 /\ timers[1].cancel = "late"
    /\ timers[1].state = "finished" /\ timers[1].starts = 1
    /\ timers[1].due > 0

\* C24: if a scheduled task fails while running, the failure produces exactly
\* one 'error' event on the store's error channel and no exception escapes
\* the timer callback to the host.
C24_TaskFailureRouted ==
    \A t \in 1..MaxTimers :
        (TimerAt(t).state = "finished" /\ TimerAt(t).task = "rejects")
        => (TimerAt(t).errors = 1 /\ ~TimerAt(t).escaped)

\* C25: whenever dataLoaded is true and no operation is in progress, the
\* in-memory sequence is the sequence written by the last successful save
\* (the file's content): a mutation whose persist failed leaves memory
\* neither holding records the file lacks nor lacking records it holds.
C25_MemoryIsLastSave ==
    (dataLoaded /\ Quiet) => file = JsonFile(Stringify(data))

\* The step taken is one of p's operation that reads or writes the in-memory
\* sequence: the load's assignment or the operation's body.
TouchesData(p) ==
    /\ procs[p].pc \in {"rd_done", "tick"}
    /\ \/ procs'[p].pc # procs[p].pc
       \/ procs'[p].inner # procs[p].inner

\* C26: operations on one handle are mutually exclusive: between the start
\* and the return of an operation no step of another operation on the handle
\* reads or writes the in-memory sequence, so none observes the sequence
\* between another's in-memory mutation and the completion of its persist.
C26_MutualExclusion ==
    [][\A p, o \in Procs :
          (p # o /\ InFlight(procs[o])) => ~TouchesData(p)]_vars

\* C27: the resolved path ends with the suffix .fastdb, appended at most
\* once: a supplied path that ends with .fastdb is kept unchanged, any other
\* gets .fastdb appended once, resolving a resolved path changes nothing, and
\* every file read, file write and 'connected' event of the handle uses the
\* resolved path.
C27_ResolvedPathUsed ==
    /\ Len(path) > 0 /\ path[Len(path)] = Suffix
    /\ IF Len(supplied) > 0 /\ supplied[Len(supplied)] = Suffix
       THEN path = supplied
       ELSE path = supplied \o <<Suffix>>
    /\ ResolvePath(path) = path
    /\ \A p \in Procs :
          /\ procs[p].io \subseteq {path}
          /\ \A i \in 1..Len(procs[p].ev) :
                procs[p].ev[i].name = "connected" => procs[p].ev[i].Path = path

C27_Witness ==
    LET pr == procs[1] IN
    /\ supplied = <<"user-database", Suffix>> /\ path = supplied
    /\ pr.pc = "done" /\ pr.op = "insert" /\ pr.io = {path}
    /\ HasEvent(pr.ev, "connected") /\ HasEvent(pr.ev, "newData")

\* C28: the read-only operations (get, getAll, dataExists, countEntries,
\* findDistinct, filterData, paginateData) never write the file once it
\* exists and never change the content or order of the in-memory sequence,
\* in every reachable state, also after a failed write.
C28_ReadOpsChangeNothing ==
    LET pr == procs[1] IN
    (pr.pc = "done" /\ pr.op \in QueryOps /\ pr.result.kind # "raise")
    => /\ data = pr.pre
       /\ pr.found.kind # "absent" => file = pr.found

\* No record of the file matches the query.
FileLacksMatches(q) ==
    \A i \in 1..Len(file.recs) : ~MatchesQuery(ParseEntry(file.recs[i]), q)

\* C29: when a 'newData' or 'dataDeleted' event is delivered, the file write
\* of the mutation that triggered it has completed (the file holds the
\* inserted record as serialized, respectively lacks the deleted records),
\* and the event is delivered before the operation returns; no such event is
\* emitted for a mutation whose write failed.
C29_EventAfterWrite ==
    LET pr == procs[1] IN
    pr.pc = "done"
    => /\ \A i \in 1..Len(pr.ev) :
             pr.ev[i].name = "newData"
             => /\ pr.op = "insert" /\ ~pr.failed /\ i = Len(pr.ev)
                /\ pr.result = RRec(pr.ev[i].rec)
                /\ file.kind = "json" /\ Len(file.recs) > 0
                /\ file.recs[Len(file.recs)] = StringifyEntry(pr.ev[i].rec)
       /\ \A i \in 1..Len(pr.ev) :
             pr.ev[i].name = "dataDeleted"
             => /\ pr.op \in {"delete", "deleteAll"} /\ ~pr.failed
                /\ i = Len(pr.ev)
                /\ file.kind = "json"
                /\ pr.op = "deleteAll" => file.recs = <<>>
                /\ pr.op = "delete" => FileLacksMatches(pr.arg.q)

C29_Witness ==
    LET pr == procs[1] IN
    /\ pr.pc = "done" /\ pr.op = "delete" /\ HasEvent(pr.ev, "dataDeleted")
    /\ pr.found = JsonFile(<<JohnRec>>) /\ pr.result = RNum(1)
    /\ file = JsonFile(<<>>)

\* C30: whenever an operation emits an 'error' event, errorOccurred is true by
\* the time the operation returns or raises, whatever the operation and the
\* cause, also when the 'error' listener throws or none is registered.
C30_ErrorEventSetsFlag ==
    \A p \in Procs :
        (procs[p].pc = "done" /\ ErrorCount(procs[p].ev) > 0) => errorOccurred

\* What the file holds, read as records; none when there is no file.
FileRecords(f) == IF f.kind = "json" THEN Parse(f.recs) ELSE <<>>

\* C31: when insert returns undefined no record has been added: memory and
\* file hold the records they held before the call, also when the write
\* fails and when a 'newData' listener throws.
C31_UndefinedInsertAddsNothing ==
    \A p \in Procs :
        LET pr == procs[p] IN
        (Returned(pr, "insert") /\ pr.result = RUndefined) =>
            /\ data = pr.pre
            /\ FileRecords(file) = FileRecords(pr.found)

\* How many entries of recs equal r.
Occurrences(recs, r) == Cardinality({i \in 1..Len(recs) : recs[i] = r})

\* How many of the operations that have returned gave the record r.
ReturnedRecord(r) == Cardinality({p \in Procs : procs[p].result = RRec(r)})

\* C32: when two overlapping inserts have both returned a record, memory and
\* the file each contain both records, whether or not the handle was loaded
\* when they started.
C32_OverlappingInsertsBothKept ==
    (\A p \in Procs :
        /\ Returned(procs[p], "insert")
        /\ ~procs[p].solo
        /\ procs[p].result.kind = "rec") =>
    \A p \in Procs :
        LET r == procs[p].result.val IN
        /\ Occurrences(data, r) >= ReturnedRecord(r)
        /\ file.kind = "json"
        /\ Occurrences(file.recs, StringifyEntry(r)) >= ReturnedRecord(r)

\* C33: every dataDeleted event emitted by delete, in any interleaving, has
\* Completed true, ActualLength <= OriginalLength, and OriginalLength -
\* ActualLength equal to the number this delete returns.
C33_DataDeletedCounts ==
    \A p \in Procs :
        LET pr == procs[p] IN
        Returned(pr, "delete") =>
            \A i \in 1..Len(pr.ev) :
                pr.ev[i].name = "dataDeleted" =>
                    /\ pr.ev[i].Completed
                    /\ pr.ev[i].ActualLength <= pr.ev[i].OriginalLength
                    /\ pr.result.kind = "num"
                    /\ pr.ev[i].OriginalLength - pr.ev[i].ActualLength
                          = pr.result.val

WritePcs == {"ldwr_wait", "ldwr_done", "wr_wait", "wr_done"}

\* C34: on a file that exists and does not deserialize, every operation of
\* the store called with valid arguments returns its failure value with one
\* error event; no write to the file is issued, memory stays empty and
\* dataLoaded false, and every such operation, the later ones too, reads the
\* file. (The operations are the ten that load the store before they act.)
C34_MalformedFileIsLoadError ==
    /\ file = Malformed => \A p \in Procs : procs[p].pc \notin WritePcs
    /\ \A p \in Procs :
         LET pr == procs[p] IN
         (pr.pc = "done" /\ pr.found = Malformed /\ ValidArgs(pr.op, pr.arg))
         => /\ pr.result = FailureValue(pr.op)
            /\ ErrorCount(pr.ev) = 1
            /\ file = Malformed
            /\ data = <<>>
            /\ ~dataLoaded
            /\ path \in pr.io

\* A second operation, an insert, has failed on the file that does not parse.
C34_Witness ==
    LET pr == procs[1] IN
    /\ pr.pc = "done" /\ pr.op = "insert" /\ ValidArgs(pr.op, pr.arg)
    /\ pr.found = Malformed /\ access = "later" /\ prev.err
    /\ pr.result = RUndefined /\ path \in pr.io

\* The path with the backup suffix appended once, unless it ends with it.
WithBackupSuffix(p) ==
    IF p # <<>> /\ p[Len(p)] = ".fastdb-backup" THEN p
    ELSE p \o <<".fastdb-backup">>

\* C35: createBackup raises and writes nothing when dataLoaded is false or
\* an argument is missing; otherwise, its write succeeding, it writes the
\* serialization of the in-memory sequence to backupPath with .fastdb-backup
\* appended once if missing and returns true; the store's own file, its
\* in-memory sequence and its flags are as they were.
C35_BackupLoadedSnapshot ==
    backup.pc = "done" =>
        /\ <<file, data, dataLoaded, errorOccurred>> = backup.before
        /\ IF ~backup.db \/ backup.given = <<>> \/ ~dataLoaded
           THEN backup.result = RRaise /\ backup.written = NoWrite
           ELSE ~backup.failed =>
                   /\ backup.result = RBool(TRUE)
                   /\ backup.written.path = WithBackupSuffix(backup.given)
                   /\ backup.written.path # path
                   /\ backup.written.recs = Stringify(data)

\* A backup of a loaded store holding a record was written under a path
\* given without the suffix.
C35_Witness ==
    /\ backup.pc = "done" /\ backup.result = RBool(TRUE) /\ dataLoaded
    /\ data # <<>>
    /\ backup.given = <<"backup">>
    /\ backup.written = [path |-> <<"backup", ".fastdb-backup">>,
                         recs |-> Stringify(data)]

\* C36: reading the path accessor ends with the resolved path of the file
\* and reading the defaultData accessor ends with the template given at
\* construction, the getter being entered once.
C36_AccessorsReturn ==
    /\ accessor.name \in {"path", "defaultData"} => accessor.depth <= 1
    /\ (accessor.pc = "done" /\ accessor.name = "path") =>
           accessor.result.kind = "value" /\ accessor.result.val = path
    /\ (accessor.pc = "done" /\ accessor.name = "defaultData") =>
           accessor.result.kind = "value" /\ accessor.result.val = defaultData
====
